---- MODULE Spec2Model ----
(***************************************************************************)
(* Model of the sensor acquisition layer of IoT-Systems:                   *)
(*   - agent/uart-saver/UARTReader.py : the UART frame synchronizer,       *)
(*     sample decoder and stream source;                                   *)
(*   - agent/src/file_datasource.py   : the CSV replay source;             *)
(*   - store/main.py                  : the POST handler of the store and  *)
(*     its WebSocket subscribers.                                          *)
(***************************************************************************)
EXTENDS Integers, Sequences, FiniteSets, TLC

VARIABLES
    \* ---- UARTReader instance (UARTReader.py:13-18)
    port,       \* self.port: "absent" (testing mode), "open" or "closed"
    i,          \* self.i: count of 0xFF bytes seen while seeking
    d,          \* self.d: index of the next payload slot
    state,      \* self.state: 0 seeking, 1 collecting, 2 frame ready
    data,       \* self.data: bytearray(6), indexed 0..5
    ret,        \* outcome of the read_next call in progress / last finished
    \* ---- the serial link and what has been observed on it
    sent,       \* the script of the link: leading noise, preamble run, payload
    tape,       \* bytes the device will still deliver (scripted link only)
    emitted,    \* payloads of the frames returned so far (scripted link only)
    lastByte,   \* the byte consumed by the last loop iteration (NoByte if none)
    ffrun,      \* length of the run of 0xFF bytes that ends the consumed stream
    syncRun,    \* ffrun just before the first byte of the payload being collected
                \* or just returned (0 while seeking)
    ffSeen,     \* number of 0xFF bytes consumed while seeking since the last
                \* frame was returned (or since the port was opened)
    \* ---- FileDatasource instance (file_datasource.py:17-33)
    ds,         \* started, and per file (acc, gps): f, reader, buf, has_header
    \* ---- the two CSV files and what the cursors have handed to read()
    files,      \* files.acc, files.gps: the rows of each file
    exists,     \* exists.acc, exists.gps: whether the path exists
    acc_log,    \* rows returned by _next_acc_row since the source was started
    gps_log,    \* rows returned by _next_gps_row since the source was started
    result,     \* outcome of the last FileDatasource call
    delay,      \* config.DELAY: <<>> for None, <<n>> for the number n
    trace,      \* the steps the last read() call went through, in order
    \* ---- the store service (store/main.py)
    db,             \* ids of the rows committed to processed_agent_data
    subscriptions,  \* subscriptions: user id -> set of WebSockets
    peers,          \* per WebSocket: "free", "open", or "gone" (the client has
                    \* disconnected, the endpoint has not yet seen it)
    post,           \* the create_processed_agent_data request in flight
    response        \* the answer to the last POST

uartVars == <<port, i, d, state, data, ret, sent, tape, emitted,
              lastByte, ffrun, syncRun, ffSeen>>

fileVars == <<ds, files, exists, acc_log, gps_log, result, delay, trace>>

storeVars == <<db, subscriptions, peers, post, response>>

vars == <<uartVars, fileVars, storeVars>>

----------------------------------------------------------------------------
(* Program constants of UARTReader.py *)

SYNC_BYTE == 255
PREAMBLE == 10
FRAME_LEN == 6
INT16_SIGN == 32768
INT16_MOD == 65536

(* Bounds of the model *)

MaxI == 12          \* the free-running link stops sending 0xFF at this count
MaxNoiseFF == 10    \* longest run of 0xFF inside the leading noise
MaxExtraRun == 1    \* the preamble run has PREAMBLE..PREAMBLE+MaxExtraRun bytes
MaxRows == 3        \* longest enumerated CSV file, in lines
MaxDelay == 1       \* largest config.DELAY, in seconds
MaxRecords == 2     \* most records in one POST
MaxStored == 4      \* most rows in processed_agent_data
MaxHash == 3        \* greatest hash of a WebSocket object
MaxSlots == 8       \* most slots of the table of a set of subscribers
ExtraReads == 1     \* read() calls observed after one startReading(), beyond
                    \* one read per pair of lines of the two files

NoByte == 0 - 1
EOFByte == 0 - 2

Min(a, b) == IF a < b THEN a ELSE b

----------------------------------------------------------------------------
(* The reader's synchronizer fields as one value *)

Self == [i |-> i, d |-> d, state |-> state, data |-> data]

ZeroData == [k \in 0 .. FRAME_LEN - 1 |-> 0]

\* self.data[idx] = byte
SetItem(buf, idx, byte) == [buf EXCEPT ![idx] = byte]

\* UARTReader.__to_int
to_int_off_by_one(x) == IF x > INT16_SIGN THEN x - INT16_MOD ELSE x

to_int(x) == IF x >= INT16_SIGN THEN x - INT16_MOD ELSE x

\* UARTReader.__frame_seek, on the fields s
frame_seek_reset(s, byte) ==
    LET i1 == IF byte = SYNC_BYTE THEN s.i + 1
              ELSE IF s.i < PREAMBLE THEN 0 ELSE s.i
    IN  IF i1 >= PREAMBLE /\ byte # SYNC_BYTE
        THEN [i |-> 0, d |-> 1, state |-> 1, data |-> SetItem(s.data, s.d, byte)]
        ELSE [s EXCEPT !.i = i1]

frame_seek_short(s, byte) ==
    LET i1 == IF byte = SYNC_BYTE THEN s.i + 1 ELSE s.i
    IN  IF i1 >= PREAMBLE - 1 /\ byte # SYNC_BYTE
        THEN [i |-> 0, d |-> 1, state |-> 1, data |-> SetItem(s.data, s.d, byte)]
        ELSE [s EXCEPT !.i = i1]

frame_seek(s, byte) ==
    LET i1 == IF byte = SYNC_BYTE THEN s.i + 1 ELSE s.i
    IN  IF i1 >= PREAMBLE /\ byte # SYNC_BYTE
        THEN [i |-> 0, d |-> 1, state |-> 1, data |-> SetItem(s.data, s.d, byte)]
        ELSE [s EXCEPT !.i = i1]

\* UARTReader.__data_read, on the fields s
data_read_counts_sync(s, byte) ==
    LET buf == SetItem(s.data, s.d, byte)
        d1  == s.d + 1
        i1  == IF byte = SYNC_BYTE THEN s.i + 1 ELSE s.i
    IN  IF d1 >= FRAME_LEN
        THEN [s EXCEPT !.data = buf, !.d = 0, !.state = 2, !.i = i1]
        ELSE [s EXCEPT !.data = buf, !.d = d1, !.i = i1]

data_read_late(s, byte) ==
    LET buf == SetItem(s.data, s.d, byte)
        d1  == s.d + 1
    IN  IF d1 >= FRAME_LEN + 1
        THEN [s EXCEPT !.data = buf, !.d = 0, !.state = 2]
        ELSE [s EXCEPT !.data = buf, !.d = d1]

data_read_early(s, byte) ==
    LET buf == SetItem(s.data, s.d, byte)
        d1  == s.d + 1
    IN  IF d1 >= FRAME_LEN - 1
        THEN [s EXCEPT !.data = buf, !.d = 0, !.state = 2]
        ELSE [s EXCEPT !.data = buf, !.d = d1]

data_read(s, byte) ==
    LET buf == SetItem(s.data, s.d, byte)
        d1  == s.d + 1
    IN  IF d1 >= FRAME_LEN
        THEN [s EXCEPT !.data = buf, !.d = 0, !.state = 2]
        ELSE [s EXCEPT !.data = buf, !.d = d1]

\* the tuple built at UARTReader.py:66-68
decode(buf) == << to_int(buf[0] + buf[1] * 256),
                  to_int(buf[2] + buf[3] * 256),
                  to_int(buf[4] + buf[5] * 256) >>

Pending == [kind |-> "pending", val |-> <<>>]
RetNone == [kind |-> "None", val |-> <<>>]
Raised(exc) == [kind |-> exc, val |-> <<>>]
Sample(v) == [kind |-> "sample", val |-> v]

\* the exception `exc` raised by the method `op` before it did anything
RaisedIn(op, exc) == [kind |-> exc, val |-> <<op>>]

\* self.data[idx] is inside the bytearray (else the store raises IndexError)
InRange(buf, idx) == idx \in DOMAIN buf

\* one iteration of the loop of read_next that got the byte `byte` from the port
Dispatch(s, byte) ==
    IF s.state = 0 THEN frame_seek(s, byte)
    ELSE IF s.state = 1 THEN data_read(s, byte)
    ELSE s

ReadByte(byte) ==
    /\ port = "open"
    /\ LET s1 == Dispatch(Self, byte)
           ready == s1.state = 2
       IN  /\ i' = s1.i
           /\ d' = s1.d
           /\ data' = s1.data
           /\ state' = IF ready THEN 0 ELSE s1.state
           /\ ret' = IF ready THEN Sample(decode(s1.data)) ELSE Pending
           \* observations of the stream
           /\ lastByte' = byte
           /\ ffrun' = IF byte = SYNC_BYTE THEN Min(ffrun + 1, PREAMBLE) ELSE 0
           /\ syncRun' = IF state = 0
                         THEN (IF s1.state = 1 THEN ffrun ELSE 0)
                         ELSE syncRun
           /\ ffSeen' = IF state = 0
                        THEN (IF ret.kind = "sample" THEN 0 ELSE ffSeen)
                             + (IF byte = SYNC_BYTE THEN 1 ELSE 0)
                        ELSE ffSeen
    /\ UNCHANGED port

\* UARTReader.close
close ==
    /\ port # "absent"
    /\ port' = "closed"
    /\ UNCHANGED <<i, d, state, data, ret, sent, tape, emitted,
                   lastByte, ffrun, syncRun, ffSeen>>
    /\ UNCHANGED <<fileVars, storeVars>>

\* read_next when port.read(1) returns b"": close and return None
ReadEOF_keeps_open ==
    /\ port = "open"
    /\ port' = "open"
    /\ ret' = RetNone
    /\ lastByte' = EOFByte
    /\ UNCHANGED <<i, d, state, data, ffrun, syncRun, ffSeen>>

ReadEOF ==
    /\ port = "open"
    /\ port' = "closed"
    /\ ret' = RetNone
    /\ lastByte' = EOFByte
    /\ UNCHANGED <<i, d, state, data, ffrun, syncRun, ffSeen>>

\* read_next in testing mode: self.port does not exist, line 52 raises
\* AttributeError
ReadUnconfigured ==
    /\ port = "absent"
    /\ ret' = RaisedIn("read_next", "AttributeError")
    /\ UNCHANGED <<port, i, d, state, data, sent, tape, emitted,
                   lastByte, ffrun, syncRun, ffSeen>>
    /\ UNCHANGED <<fileVars, storeVars>>

\* close in testing mode: self.port does not exist, line 21 raises
\* AttributeError
CloseUnconfigured ==
    /\ port = "absent"
    /\ ret' = RaisedIn("close", "AttributeError")
    /\ UNCHANGED <<port, i, d, state, data, sent, tape, emitted,
                   lastByte, ffrun, syncRun, ffSeen>>
    /\ UNCHANGED <<fileVars, storeVars>>

\* read_next on a closed handle: port.read raises ValueError
ReadClosed ==
    /\ port = "closed"
    /\ ret' = Raised("ValueError")
    /\ lastByte' = NoByte
    /\ UNCHANGED <<port, i, d, state, data, sent, tape, emitted,
                   ffrun, syncRun, ffSeen>>
    /\ UNCHANGED <<fileVars, storeVars>>

----------------------------------------------------------------------------
(* Text of CSV cells.  A cell is a sequence of one-character strings, a row *)
(* a sequence of cells (what csv.reader yields for one line), a file a      *)
(* sequence of rows.  The alphabet has no "_" (float accepts 1_0).          *)

Whitespace == {" ", "\t"}
Digit == {"0", "1", "2", "3", "4", "5", "6", "7", "8", "9"}

DigitVal(c) ==
    CASE c = "0" -> 0 [] c = "1" -> 1 [] c = "2" -> 2 [] c = "3" -> 3
      [] c = "4" -> 4 [] c = "5" -> 5 [] c = "6" -> 6 [] c = "7" -> 7
      [] c = "8" -> 8 [] c = "9" -> 9

UpperToLower ==
    [c \in {"X", "Y", "Z", "L", "O", "N", "G", "I", "T", "U", "D", "E", "A", "F"} |->
        CASE c = "X" -> "x" [] c = "Y" -> "y" [] c = "Z" -> "z" [] c = "L" -> "l"
          [] c = "O" -> "o" [] c = "N" -> "n" [] c = "G" -> "g" [] c = "I" -> "i"
          [] c = "T" -> "t" [] c = "U" -> "u" [] c = "D" -> "d" [] c = "E" -> "e"
          [] c = "A" -> "a" [] c = "F" -> "f"]

\* the positions of the cell that hold no whitespace
Black(cell) == {k \in 1 .. Len(cell) : cell[k] \notin Whitespace}

Least(S) == CHOOSE k \in S : \A j \in S : k <= j
Greatest(S) == CHOOSE k \in S : \A j \in S : k >= j

\* str.strip(): the cell without its leading and trailing whitespace
strip(cell) ==
    IF Black(cell) = {} THEN <<>>
    ELSE SubSeq(cell, Least(Black(cell)), Greatest(Black(cell)))

\* str.lower()
lower(cell) ==
    [k \in 1 .. Len(cell) |->
        IF cell[k] \in DOMAIN UpperToLower THEN UpperToLower[cell[k]] ELSE cell[k]]

\* [c.strip() for c in row]
StripRow(row) == [k \in 1 .. Len(row) |-> strip(row[k])]

\* [c.lower() for c in first]
LowerRow(row) == [k \in 1 .. Len(row) |-> lower(row[k])]

\* any(row): some cell is a non-empty string
AnyCell(row) == \E k \in 1 .. Len(row) : row[k] # <<>>

\* not (not row or not any(row))
NonBlank(row) == row # <<>> /\ AnyCell(row)

(* float(s): [sign] (nan | inf | infinity | decimal [exponent]), any case,    *)
(* surrounding whitespace allowed.  The value of a finite number is kept     *)
(* exactly as m * 10^e with m not divisible by 10 (0 is m = 0, e = 0).       *)

IsDigits(s) == \A k \in 1 .. Len(s) : s[k] \in Digit

RECURSIVE DigitsVal(_)
DigitsVal(s) ==
    IF s = <<>> THEN 0
    ELSE 10 * DigitsVal(SubSeq(s, 1, Len(s) - 1)) + DigitVal(s[Len(s)])

FirstIndex(s, chars) ==
    IF \E k \in 1 .. Len(s) : s[k] \in chars
    THEN CHOOSE k \in 1 .. Len(s) :
            s[k] \in chars /\ \A j \in 1 .. k - 1 : s[j] \notin chars
    ELSE 0

\* the text before and after position k (all of it and none if k = 0)
Before(s, k) == IF k = 0 THEN s ELSE SubSeq(s, 1, k - 1)
After(s, k) == IF k = 0 THEN <<>> ELSE SubSeq(s, k + 1, Len(s))

Unsigned(s) == IF s # <<>> /\ s[1] \in {"+", "-"} THEN Tail(s) ELSE s
SignOf(s) == IF s # <<>> /\ s[1] = "-" THEN 0 - 1 ELSE 1

RECURSIVE Normal(_, _)
Normal(m, e) ==
    IF m = 0 THEN [m |-> 0, e |-> 0]
    ELSE IF m % 10 = 0 THEN Normal(m \div 10, e + 1)
    ELSE [m |-> m, e |-> e]

NotANumber == [kind |-> "error", m |-> 0, e |-> 0]

Finite(n) == [kind |-> "num", m |-> n.m, e |-> n.e]

\* sign sg, integer digits ip, fraction digits fp, exponent text expo
\* (has_exp: an "e" was present)
Decimal(sg, ip, fp, has_exp, expo) ==
    IF /\ IsDigits(ip) /\ IsDigits(fp) /\ Len(ip) + Len(fp) > 0
       /\ has_exp => (Unsigned(expo) # <<>> /\ IsDigits(Unsigned(expo)))
    THEN Finite(Normal(sg * DigitsVal(ip \o fp),
                       SignOf(expo) * DigitsVal(Unsigned(expo)) - Len(fp)))
    ELSE NotANumber

MantissaAt(sg, mant, dpos, has_exp, expo) ==
    Decimal(sg, Before(mant, dpos), After(mant, dpos), has_exp, expo)

ExponentAt(sg, body, epos) ==
    MantissaAt(sg, Before(body, epos), FirstIndex(Before(body, epos), {"."}),
               epos # 0, After(body, epos))

FloatOf(sg, body) ==
    IF body = <<"n", "a", "n">> THEN [kind |-> "nan", m |-> 0, e |-> 0]
    ELSE IF body \in {<<"i", "n", "f">>, <<"i", "n", "f", "i", "n", "i", "t", "y">>}
    THEN [kind |-> "inf", m |-> sg, e |-> 0]
    ELSE ExponentAt(sg, body, FirstIndex(body, {"e"}))

FloatOfText(s) == FloatOf(SignOf(s), Unsigned(s))

float(cell) == FloatOfText(lower(strip(cell)))

\* FileDatasource._is_number
is_number(cell) == float(cell).kind # "error"

RECURSIVE Pow10(_)
Pow10(n) == IF n = 0 THEN 1 ELSE 10 * Pow10(n - 1)

\* int(v) of a float v: truncation toward zero; ValueError for nan (and for
\* text float() refuses), OverflowError for an infinity
IntOf(v) ==
    IF v.kind = "error" \/ v.kind = "nan" THEN [exc |-> "ValueError", val |-> 0]
    ELSE IF v.kind = "inf" THEN [exc |-> "OverflowError", val |-> 0]
    ELSE IF v.e >= 0 THEN [exc |-> "", val |-> v.m * Pow10(v.e)]
    ELSE IF v.m >= 0 THEN [exc |-> "", val |-> v.m \div Pow10(0 - v.e)]
    ELSE [exc |-> "", val |-> 0 - ((0 - v.m) \div Pow10(0 - v.e))]

\* int(float(s))
int_float(cell) == IntOf(float(cell))

----------------------------------------------------------------------------
(* FileDatasource (file_datasource.py).  The instance is the record ds:     *)
(* ds.started is _started and, for w in {acc, gps}, ds[w].f is _w_f (the    *)
(* open file with the number of rows already read from it), ds[w].reader is *)
(* _w_reader, ds[w].buf is _w_buf and ds[w].has_header is _w_has_header.    *)
(* An Optional row is <<>> for None and <<row>> for a row.                  *)

NoFile == [open |-> FALSE, pos |-> 0]

CursorNone == [f |-> NoFile, reader |-> "None", buf |-> <<>>, has_header |-> "None"]

\* FileDatasource.__init__
DsNew == [started |-> FALSE, acc |-> CursorNone, gps |-> CursorNone]

Str_x == <<"x">>
Str_y == <<"y">>
Str_z == <<"z">>
Str_longitude == <<"l", "o", "n", "g", "i", "t", "u", "d", "e">>
Str_latitude == <<"l", "a", "t", "i", "t", "u", "d", "e">>

\* expected_cols and header_tokens of the two files (lines 89-94, 118-129)
ExpectedCols(w) == IF w = "acc" THEN 3 ELSE 2
HeaderTokens(w) == IF w = "acc" THEN {Str_x, Str_y, Str_z}
                   ELSE {Str_longitude, Str_latitude}

BoolStr(b) == IF b THEN "True" ELSE "False"

\* all(tok in norm for tok in header_tokens)
AllTokensIn(norm, header_tokens) ==
    \A tok \in header_tokens : \E k \in 1 .. Len(norm) : norm[k] = tok

\* len(norm) >= expected_cols and all(_is_number(x) for x in norm[:expected_cols])
NumericLike(norm, expected_cols) ==
    /\ Len(norm) >= expected_cols
    /\ \A k \in 1 .. expected_cols : is_number(norm[k])

LeastOrZero(S) == IF S = {} THEN 0 ELSE Least(S)

\* the first line after line `pos` of `file` whose stripped row is not blank
\* (0 if there is none): where the loops `while True: row = next(rdr, None)`
\* of lines 135-151 and 181-187 stop skipping
NextNonBlank(file, pos) ==
    LeastOrZero({k \in pos + 1 .. Len(file) : NonBlank(StripRow(file[k]))})

\* the three-way decision of lines 189-200 on the stripped row `first` and
\* its lower-cased form `norm`
Classify_drops_numeric(first, norm, expected_cols, header_tokens) ==
    IF AllTokensIn(norm, header_tokens) THEN [has_header |-> TRUE, buf |-> <<>>]
    ELSE IF NumericLike(norm, expected_cols)
    THEN [has_header |-> FALSE, buf |-> <<>>]
    ELSE [has_header |-> TRUE, buf |-> <<>>]

Classify(first, norm, expected_cols, header_tokens) ==
    IF AllTokensIn(norm, header_tokens) THEN [has_header |-> TRUE, buf |-> <<>>]
    ELSE IF NumericLike(norm, expected_cols)
    THEN [has_header |-> FALSE, buf |-> <<first>>]
    ELSE [has_header |-> TRUE, buf |-> <<>>]

\* lines 180-200 once the first non-blank line k is known (k = 0: none)
DetectAt(file, k, expected_cols, header_tokens) ==
    IF k = 0 THEN [has_header |-> FALSE, buf |-> <<>>, pos |-> Len(file)]
    ELSE Classify(StripRow(file[k]), LowerRow(StripRow(file[k])),
                  expected_cols, header_tokens) @@ [pos |-> k]

\* FileDatasource._detect_header_and_buffer, on a reader that has read `pos`
\* rows of `file`; pos in the result is the reader's position afterwards
detect_header_and_buffer(file, pos, expected_cols, header_tokens) ==
    DetectAt(file, NextNonBlank(file, pos), expected_cols, header_tokens)

\* the cursor made of an open file, a csv.reader and the detection result r
CursorOf(r) ==
    [f |-> [open |-> TRUE, pos |-> r.pos], reader |-> "reader",
     buf |-> r.buf, has_header |-> BoolStr(r.has_header)]

\* the cursor of file w after open (or seek(0)), csv.reader and header detection
Opened(w) ==
    CursorOf(detect_header_and_buffer(files[w], 0, ExpectedCols(w), HeaderTokens(w)))

\* the cursor of file w after seek(0) and csv.reader, header detection left out
Reopened(w) ==
    [f |-> [open |-> TRUE, pos |-> 0], reader |-> "reader",
     buf |-> <<>>, has_header |-> "None"]

\* FileDatasource._close_files
close_files(s) == [s EXCEPT !.acc = CursorNone, !.gps = CursorNone]

\* FileDatasource._open_files
open_files(s) == [close_files(s) EXCEPT !.acc = Opened("acc"), !.gps = Opened("gps")]

\* FileDatasource._rewind_acc / _rewind_gps: [exc, s]
rewind_acc_no_detect(s) ==
    IF ~s.acc.f.open THEN [exc |-> "RuntimeError", s |-> s]
    ELSE [exc |-> "", s |-> [s EXCEPT !.acc = Reopened("acc")]]

rewind_acc_reopens_both(s) ==
    IF ~s.acc.f.open THEN [exc |-> "RuntimeError", s |-> s]
    ELSE [exc |-> "", s |-> [s EXCEPT !.acc = Opened("acc"), !.gps = Opened("gps")]]

rewind_acc(s) ==
    IF ~s.acc.f.open THEN [exc |-> "RuntimeError", s |-> s]
    ELSE [exc |-> "", s |-> [s EXCEPT !.acc = Opened("acc")]]

rewind_gps(s) ==
    IF ~s.gps.f.open THEN [exc |-> "RuntimeError", s |-> s]
    ELSE [exc |-> "", s |-> [s EXCEPT !.gps = Opened("gps")]]

rewind(s, w) == IF w = "acc" THEN rewind_acc(s) ELSE rewind_gps(s)

NoRow == [exc |-> "", hang |-> FALSE, row |-> <<>>, idx |-> 0]

\* the test of line 148: a blank row is skipped
SkipRow_never(row) == FALSE

SkipRow(row) == ~NonBlank(row)

\* the first line after `pos` that the loop does not skip (0 if none)
NextKept(file, pos) ==
    LeastOrZero({k \in pos + 1 .. Len(file) : ~SkipRow(StripRow(file[k]))})

(* One pass of the loop of _next_acc_row / _next_gps_row over file w, from  *)
(* the cursor s[w] up to the first row it returns or to the end of the     *)
(* file: the buffered row if there is one (lines 136-138), else the next   *)
(* rows of the reader (line 140), skipped rows left out (lines 147-149);   *)
(* k is the first line of the reader that is not skipped.                  *)
PullAt(s, w, k) ==
    IF s[w].buf # <<>> /\ ~SkipRow(StripRow(s[w].buf[1]))
    THEN [found |-> TRUE, row |-> StripRow(s[w].buf[1]), idx |-> s[w].f.pos,
          s |-> [s EXCEPT ![w].buf = <<>>]]
    ELSE IF k # 0
    THEN [found |-> TRUE, row |-> StripRow(files[w][k]), idx |-> k,
          s |-> [s EXCEPT ![w].buf = <<>>, ![w].f.pos = k]]
    ELSE [found |-> FALSE, row |-> <<>>, idx |-> 0,
          s |-> [s EXCEPT ![w].buf = <<>>, ![w].f.pos = Len(files[w])]]

Pull(s, w) == PullAt(s, w, NextKept(files[w], s[w].f.pos))

RowOf(p) == [NoRow EXCEPT !.row = p.row, !.idx = p.idx] @@ [s |-> p.s]

(* FileDatasource._next_acc_row / _next_gps_row on file w: [exc, hang, s,   *)
(* row, idx]; idx is the line of the file the row came from.  At the end   *)
(* of the file the loop rewinds and goes on (lines 142-145); a pass that   *)
(* starts right after a rewind and reaches the end of the file again       *)
(* without a row leaves the loop where it was, so it never ends (hang).    *)
AfterSecondPass(r, p2) ==
    IF p2.found THEN RowOf(p2) ELSE [NoRow EXCEPT !.hang = TRUE] @@ [s |-> r.s]

AfterRewind(r, w) ==
    IF r.exc # "" THEN [NoRow EXCEPT !.exc = r.exc] @@ [s |-> r.s]
    ELSE AfterSecondPass(r, Pull(r.s, w))

AfterFirstPass(p1, w) ==
    IF p1.found THEN RowOf(p1) ELSE AfterRewind(rewind(p1.s, w), w)

next_row(s, w) ==
    IF s[w].reader = "None" THEN [NoRow EXCEPT !.exc = "RuntimeError"] @@ [s |-> s]
    ELSE AfterFirstPass(Pull(s, w), w)

\* FileDatasource._next_acc_row
next_acc_row(s) == next_row(s, "acc")

\* FileDatasource._next_gps_row
next_gps_row(s) == next_row(s, "gps")

\* Accelerometer(x=x, y=y, z=z) of the three int(float(.)) results
AccOf(x, y, z) ==
    IF x.exc # "" THEN [exc |-> x.exc, val |-> <<>>]
    ELSE IF y.exc # "" THEN [exc |-> y.exc, val |-> <<>>]
    ELSE IF z.exc # "" THEN [exc |-> z.exc, val |-> <<>>]
    ELSE [exc |-> "", val |-> <<x.val, y.val, z.val>>]

\* FileDatasource._parse_acc: [exc, val]
parse_acc(row) ==
    IF Len(row) < 3 THEN [exc |-> "ValueError", val |-> <<>>]
    ELSE AccOf(int_float(row[1]), int_float(row[2]), int_float(row[3]))

\* Gps(longitude=lon, latitude=lat) of the two float(.) results
GpsOf(lon, lat) ==
    IF lon.kind = "error" \/ lat.kind = "error"
    THEN [exc |-> "ValueError", val |-> <<>>]
    ELSE [exc |-> "", val |-> <<lon, lat>>]

\* FileDatasource._parse_gps: [exc, val]
parse_gps(row) ==
    IF Len(row) < 2 THEN [exc |-> "ValueError", val |-> <<>>]
    ELSE GpsOf(float(row[1]), float(row[2]))

\* the fields of the dataclass AggregatedData (aggregated_data.py:10-16); none
\* has a default value
AggregatedDataFields == {"accelerometer", "gps", "parking", "timestamp", "user_id"}

Outcome(op, kind) == [op |-> op, kind |-> kind, value |-> <<>>]

\* AggregatedData(**kw): the generated __init__ takes exactly the fields
NewAggregatedData(kw) ==
    IF DOMAIN kw = AggregatedDataFields
    THEN [op |-> "read", kind |-> "reading", value |-> <<kw>>]
    ELSE Outcome("read", "TypeError")

\* lines 61-73 of read(), on the results of the two parsers
Assemble(acc, gps) ==
    IF acc.exc # "" THEN Outcome("read", acc.exc)
    ELSE IF gps.exc # "" THEN Outcome("read", gps.exc)
    ELSE NewAggregatedData([accelerometer |-> acc.val, gps |-> gps.val,
                            time |-> "utcnow", user_id |-> "USER_ID"])

\* the part of read() after the two cursors have delivered their rows
ReadOutcome(acc_row, gps_row) == Assemble(parse_acc(acc_row), parse_gps(gps_row))

\* lines 65-66: time.sleep runs when config.DELAY is truthy and positive
Sleeps == delay # <<>> /\ delay[1] # 0 /\ delay[1] > 0

\* lines 65-73 in the order they run: the delay, then the arguments of
\* AggregatedData (datetime.utcnow() among them), then the call
Finish == (IF Sleeps THEN <<"sleep">> ELSE <<>>) \o <<"utcnow", "AggregatedData">>

\* the steps of read() in the order they run, up to the one that raises
StepsOf(acc, gps) ==
    <<"_next_acc_row", "_next_gps_row", "_parse_acc">>
    \o (IF acc.exc # "" THEN <<>>
        ELSE <<"_parse_gps">> \o (IF gps.exc # "" THEN <<>> ELSE Finish))

ReadSteps(acc_row, gps_row) == StepsOf(parse_acc(acc_row), parse_gps(gps_row))

Running == result.kind # "hang"

\* startReading() that opens the files before it looks for the paths
startReading_opens_first ==
    /\ Running
    /\ IF ds.started
       THEN /\ result' = Outcome("startReading", "ok")
            /\ UNCHANGED <<ds, acc_log, gps_log>>
       ELSE IF ~exists.acc \/ ~exists.gps
       THEN /\ result' = Outcome("startReading", "FileNotFoundError")
            /\ ds' = [ds EXCEPT !.acc = IF exists.acc THEN Opened("acc") ELSE @,
                                !.gps = IF exists.gps THEN Opened("gps") ELSE @]
            /\ UNCHANGED <<acc_log, gps_log>>
       ELSE /\ ds' = [open_files(ds) EXCEPT !.started = TRUE]
            /\ result' = Outcome("startReading", "ok")
            /\ acc_log' = <<>>
            /\ gps_log' = <<>>
    /\ trace' = <<>>
    /\ UNCHANGED <<files, exists, delay>>
    /\ UNCHANGED <<uartVars, storeVars>>

\* FileDatasource.startReading
startReading ==
    /\ Running
    /\ IF ds.started
       THEN /\ result' = Outcome("startReading", "ok")
            /\ UNCHANGED <<ds, acc_log, gps_log>>
       ELSE IF ~exists.acc \/ ~exists.gps
       THEN /\ result' = Outcome("startReading", "FileNotFoundError")
            /\ UNCHANGED <<ds, acc_log, gps_log>>
       ELSE /\ ds' = [open_files(ds) EXCEPT !.started = TRUE]
            /\ result' = Outcome("startReading", "ok")
            /\ acc_log' = <<>>
            /\ gps_log' = <<>>
    /\ trace' = <<>>
    /\ UNCHANGED <<files, exists, delay>>
    /\ UNCHANGED <<uartVars, storeVars>>

\* stopReading() that leaves the files open
stopReading_keeps_files ==
    /\ Running
    /\ ds' = [ds EXCEPT !.started = FALSE]
    /\ result' = Outcome("stopReading", "ok")
    /\ acc_log' = <<>>
    /\ gps_log' = <<>>
    /\ trace' = <<>>
    /\ UNCHANGED <<files, exists, delay>>
    /\ UNCHANGED <<uartVars, storeVars>>

\* FileDatasource.stopReading
stopReading ==
    /\ Running
    /\ ds' = [close_files(ds) EXCEPT !.started = FALSE]
    /\ result' = Outcome("stopReading", "ok")
    /\ acc_log' = <<>>
    /\ gps_log' = <<>>
    /\ trace' = <<>>
    /\ UNCHANGED <<files, exists, delay>>
    /\ UNCHANGED <<uartVars, storeVars>>

Delivered(r) == [idx |-> r.idx, row |-> r.row]

\* read() from line 59 on, the cursors put back where they were when a row
\* does not parse
ReadGps_retry(a, g) ==
    /\ ds' = IF ~g.hang /\ g.exc = "" /\ ReadOutcome(a.row, g.row).kind = "ValueError"
             THEN ds ELSE g.s
    /\ acc_log' = Append(acc_log, Delivered(a))
    /\ IF g.exc # "" \/ g.hang
       THEN /\ result' = Outcome("read", IF g.hang THEN "hang" ELSE g.exc)
            /\ trace' = <<"_next_acc_row", "_next_gps_row">>
            /\ UNCHANGED gps_log
       ELSE /\ gps_log' = Append(gps_log, Delivered(g))
            /\ result' = ReadOutcome(a.row, g.row)
            /\ trace' = ReadSteps(a.row, g.row)

\* read() from line 59 on: a is what _next_acc_row returned, g the result of
\* _next_gps_row
ReadGps(a, g) ==
    /\ ds' = g.s
    /\ acc_log' = Append(acc_log, Delivered(a))
    /\ IF g.exc # "" \/ g.hang
       THEN /\ result' = Outcome("read", IF g.hang THEN "hang" ELSE g.exc)
            /\ trace' = <<"_next_acc_row", "_next_gps_row">>
            /\ UNCHANGED gps_log
       ELSE /\ gps_log' = Append(gps_log, Delivered(g))
            /\ result' = ReadOutcome(a.row, g.row)
            /\ trace' = ReadSteps(a.row, g.row)

\* read() from line 58 on: a is the result of _next_acc_row
ReadAcc(a) ==
    IF a.exc # "" \/ a.hang
    THEN /\ ds' = a.s
         /\ result' = Outcome("read", IF a.hang THEN "hang" ELSE a.exc)
         /\ trace' = <<"_next_acc_row">>
         /\ UNCHANGED <<acc_log, gps_log>>
    ELSE ReadGps(a, next_gps_row(a.s))

\* the number of read() calls observed after one startReading()
ReadBudget == Len(files.acc) * Len(files.gps) + ExtraReads

\* read() that opens the files itself when the source is not started
read_opens_lazily ==
    /\ Running
    /\ Len(acc_log) < ReadBudget
    /\ IF ~ds.started
       THEN /\ result' = Outcome("read", "RuntimeError")
            /\ ds' = IF exists.acc /\ exists.gps THEN open_files(ds) ELSE ds
            /\ trace' = <<>>
            /\ UNCHANGED <<acc_log, gps_log>>
       ELSE ReadAcc(next_acc_row(ds))
    /\ UNCHANGED <<files, exists, delay>>
    /\ UNCHANGED <<uartVars, storeVars>>

\* FileDatasource.read
read ==
    /\ Running
    /\ Len(acc_log) < ReadBudget
    /\ IF ~ds.started
       THEN /\ result' = Outcome("read", "RuntimeError")
            /\ trace' = <<>>
            /\ UNCHANGED <<ds, acc_log, gps_log>>
       ELSE ReadAcc(next_acc_row(ds))
    /\ UNCHANGED <<files, exists, delay>>
    /\ UNCHANGED <<uartVars, storeVars>>

\* the environment creates the missing files
CreateFiles ==
    /\ ~exists.acc \/ ~exists.gps
    /\ exists' = [acc |-> TRUE, gps |-> TRUE]
    /\ UNCHANGED <<ds, files, acc_log, gps_log, result, delay, trace>>
    /\ UNCHANGED <<uartVars, storeVars>>

\* no FileDatasource in use
FileIdle ==
    /\ ds = DsNew
    /\ files = [acc |-> <<>>, gps |-> <<>>]
    /\ exists = [acc |-> FALSE, gps |-> FALSE]
    /\ acc_log = <<>>
    /\ gps_log = <<>>
    /\ result = Outcome("", "none")
    /\ delay = <<>>
    /\ trace = <<>>

----------------------------------------------------------------------------
(* The store service (store/main.py): create_processed_agent_data and the   *)
(* WebSocket endpoint, for one user id.  The handlers are coroutines: a     *)
(* handler runs without interruption up to its next await, and the other    *)
(* handlers run while it waits.                                             *)

Sockets == {"ws1", "ws2"}

USER == 1

\* the set type of the interpreter (CPython 3.11, Objects/setobject.c): an
\* open-addressed hash table of PySet_MINSIZE slots at first, probed LINEAR_PROBES
\* slots at a time, the hash shifted by PERTURB_SHIFT bits (a division by
\* PerturbDiv) from one group of probes to the next
PySet_MINSIZE == 8

LINEAR_PROBES == 9

PerturbDiv == 32

\* the hashes of the WebSocket objects
Hashes == 0 .. MaxHash

\* the key of a slot that was never used, and of one whose key was removed
NoSocket == "none"

DummyKey == "dummy"

UnusedEntry == [key |-> NoSocket, hash |-> 0]

DummyEntry == [key |-> DummyKey, hash |-> -1]

\* set()
EmptySet == [mask |-> PySet_MINSIZE - 1, fill |-> 0,
             tab |-> [j \in 0 .. PySet_MINSIZE - 1 |-> UnusedEntry]]

\* the slots of a set that hold an element, from position pos on
Occupied(so, pos) ==
    {j \in 0 .. so.mask : j >= pos /\ so.tab[j].key \notin {NoSocket, DummyKey}}

\* the elements of a set
Members(so) == {so.tab[j].key : j \in Occupied(so, 0)}

\* len(set)
Used(so) == Cardinality(Occupied(so, 0))

\* the slot that holds ws
SlotOf(so, ws) == CHOOSE j \in 0 .. so.mask : so.tab[j].key = ws

\* the slots probed in a row from slot at
Window(at, mask) == at .. (IF at + LINEAR_PROBES <= mask THEN at + LINEAR_PROBES ELSE at)

\* the last dummy slot among `seen`, else the one remembered before
FreeSlot(tab, seen, freeslot) ==
    IF {j \in seen : tab[j].key = DummyKey} = {} THEN freeslot
    ELSE Greatest({j \in seen : tab[j].key = DummyKey})

\* set_add_entry, found_unused_or_dummy: a dummy slot passed on the way is
\* taken before the unused slot
FoundSlot(unused, freeslot) ==
    IF freeslot = -1 THEN [slot |-> unused, fresh |-> TRUE]
    ELSE [slot |-> freeslot, fresh |-> FALSE]

\* set_add_entry, the search: the slot a new key goes to. The probes stop at
\* the first slot never used; the key takes the last dummy slot passed on the
\* way (fresh |-> FALSE), else that slot (fresh |-> TRUE)
RECURSIVE FindSlot(_, _, _, _, _)
FindSlot(tab, mask, at, perturb, freeslot) ==
    IF {j \in Window(at, mask) : tab[j].key = NoSocket} = {}
    THEN FindSlot(tab, mask,
                  (at * 5 + 1 + perturb \div PerturbDiv) % (mask + 1),
                  perturb \div PerturbDiv,
                  FreeSlot(tab, Window(at, mask), freeslot))
    ELSE FoundSlot(Least({j \in Window(at, mask) : tab[j].key = NoSocket}),
                   FreeSlot(tab, at .. Least({j \in Window(at, mask) : tab[j].key = NoSocket}),
                            freeslot))

\* set_insert_clean: a key goes into a table without dummies
set_insert_clean(tab, mask, entry) ==
    [tab EXCEPT ![FindSlot(tab, mask, entry.hash % (mask + 1), entry.hash, -1).slot] = entry]

\* the size of the table that set_table_resize makes
RECURSIVE NewSize(_, _)
NewSize(newsize, minused) ==
    IF newsize <= minused THEN NewSize(newsize * 2, minused) ELSE newsize

\* set_table_resize, the copy: the elements of the old table, slot after slot
\* from `from` on, go into the new table
RECURSIVE Reinsert(_, _, _, _)
Reinsert(old, tab, mask, from) ==
    IF from > old.mask THEN tab
    ELSE Reinsert(old,
                  IF from \in Occupied(old, 0)
                  THEN set_insert_clean(tab, mask, old.tab[from]) ELSE tab,
                  mask, from + 1)

\* set_table_resize
set_table_resize(so, minused) ==
    [mask |-> NewSize(PySet_MINSIZE, minused) - 1,
     fill |-> Used(so),
     tab |-> Reinsert(so, [j \in 0 .. NewSize(PySet_MINSIZE, minused) - 1 |-> UnusedEntry],
                      NewSize(PySet_MINSIZE, minused) - 1, 0)]

\* set_add_entry after the search: a table filled to three fifths is resized
Grown(so) ==
    IF so.fill * 5 < so.mask * 3 THEN so ELSE set_table_resize(so, Used(so) * 4)

Placed(so, entry, found) ==
    IF found.fresh
    THEN Grown([so EXCEPT !.tab[found.slot] = entry, !.fill = @ + 1])
    ELSE [so EXCEPT !.tab[found.slot] = entry]

\* set.add of a new object ws with hash h
set_add(so, ws, h) ==
    Placed(so, [key |-> ws, hash |-> h],
           FindSlot(so.tab, so.mask, h % (so.mask + 1), h, -1))

\* set.remove: the slot keeps a dummy key
set_remove(so, ws) == [so EXCEPT !.tab[SlotOf(so, ws)] = DummyEntry]

\* subscriptions = {}
NoSubscriptions == [keys |-> {}, sets |-> [u \in {USER} |-> EmptySet]]

\* no request in flight
NoPost == [pc |-> "idle", records |-> {}, k |-> 0, to |-> NoSocket,
           pos |-> 0, used |-> 0]

\* no POST has been answered since the last one came in
NoResponse == [status |-> 0, body |-> {}, created |-> {}]

StoreIdle ==
    /\ db = {}
    /\ subscriptions = NoSubscriptions
    /\ peers = [ws \in Sockets |-> "free"]
    /\ post = NoPost
    /\ response = NoResponse

\* websocket_endpoint up to its first receive_text: accept, register. The
\* WebSocket is a new object, its hash is its address
Connect ==
    \E ws \in Sockets, h \in Hashes :
        /\ peers[ws] = "free"
        /\ set_add(subscriptions.sets[USER], ws, h).mask < MaxSlots
        /\ peers' = [peers EXCEPT ![ws] = "open"]
        /\ subscriptions' =
              [keys |-> subscriptions.keys \cup {USER},
               sets |-> [subscriptions.sets EXCEPT
                            ![USER] = set_add(subscriptions.sets[USER], ws, h)]]
        /\ UNCHANGED <<db, post, response>>
        /\ UNCHANGED <<uartVars, fileVars>>

\* the client of a WebSocket goes away
Drop ==
    \E ws \in Sockets :
        /\ peers[ws] = "open"
        /\ peers' = [peers EXCEPT ![ws] = "gone"]
        /\ UNCHANGED <<db, subscriptions, post, response>>
        /\ UNCHANGED <<uartVars, fileVars>>

\* websocket_endpoint: receive_text raises WebSocketDisconnect, the socket is
\* taken out of the set
Unsubscribe ==
    \E ws \in Sockets :
        /\ peers[ws] = "gone"
        /\ peers' = [peers EXCEPT ![ws] = "free"]
        /\ subscriptions' =
              [subscriptions EXCEPT
                  !.sets[USER] = set_remove(subscriptions.sets[USER], ws)]
        /\ UNCHANGED <<db, post, response>>
        /\ UNCHANGED <<uartVars, fileVars>>

\* whether websocket.send_json may raise: not on a connected peer; on a peer
\* that has gone, the send fails or is dropped unnoticed
SendRaises(ws) == IF peers[ws] = "open" THEN {FALSE} ELSE {TRUE, FALSE}

\* `return created_records`: HTTP 200
Return200(records) ==
    /\ response' = [status |-> 200, body |-> records, created |-> records]
    /\ post' = NoPost

\* the `except Exception` branch: session.rollback(), HTTPException(500)
Return500(records) ==
    /\ response' = [status |-> 500, body |-> {}, created |-> records]
    /\ post' = NoPost

\* `await websocket.send_json(...)` of record k to the socket the set iterator
\* yields from `slot`; the iterator, made when the set held `used` elements,
\* goes on after that slot. The request in flight has no answer yet
SendTo(records, k, so, used, slot) ==
    \E raises \in SendRaises(so.tab[slot].key) :
        IF raises THEN Return500(records)
        ELSE /\ post' = [pc |-> "sending", records |-> records, k |-> k,
                         to |-> so.tab[slot].key, pos |-> slot + 1, used |-> used]
             /\ response' = NoResponse

\* the loop of lines 85-86 from record k on, up to the first await: a record
\* is sent to nobody when the user has no subscription or an empty set, else
\* a new iterator starts at the first used slot
SendFrom(records, k) ==
    IF \/ k > Cardinality(records)
       \/ USER \notin subscriptions.keys
       \/ Members(subscriptions.sets[USER]) = {}
    THEN Return200(records)
    ELSE SendTo(records, k, subscriptions.sets[USER],
                Used(subscriptions.sets[USER]),
                Least(Occupied(subscriptions.sets[USER], 0)))

\* the ids of n new rows
NewIds(n) == Cardinality(db) + 1 .. Cardinality(db) + n

\* create_processed_agent_data up to its first await: insert and commit
\* (lines 65-83), then the send loop; a failure of the database is rolled back
PostRequest ==
    /\ post.pc = "idle"
    /\ \E n \in 1 .. MaxRecords :
          /\ Cardinality(db) + n <= MaxStored
          /\ \/ /\ db' = db \cup NewIds(n)
                /\ SendFrom(NewIds(n), 1)
             \/ /\ db' = db
                /\ Return500(NewIds(n))
    /\ UNCHANGED <<subscriptions, peers>>
    /\ UNCHANGED <<uartVars, fileVars>>

\* create_processed_agent_data from the await of a send on. The set iterator
\* looks at the set as it is now: it raises RuntimeError when the number of
\* elements differs from the one it started with, else it yields the socket
\* in the next used slot at or after its position, whichever socket that is;
\* past the last used slot the loop ends and the next record follows
Resume ==
    /\ post.pc = "sending"
    /\ IF Used(subscriptions.sets[USER]) # post.used
       THEN Return500(post.records)
       ELSE IF Occupied(subscriptions.sets[USER], post.pos) # {}
       THEN SendTo(post.records, post.k, subscriptions.sets[USER], post.used,
                   Least(Occupied(subscriptions.sets[USER], post.pos)))
       ELSE SendFrom(post.records, post.k + 1)
    /\ UNCHANGED <<db, subscriptions, peers>>
    /\ UNCHANGED <<uartVars, fileVars>>

----------------------------------------------------------------------------
(* The free-running link: any byte may arrive, or the stream may end *)

Bytes == {0, 128, SYNC_BYTE}

UartInit ==
    /\ port = "open"
    /\ i = 0
    /\ d = 0
    /\ state = 0
    /\ data = ZeroData
    /\ ret = Pending
    /\ emitted = <<>>
    /\ lastByte = NoByte
    /\ ffrun = 0
    /\ syncRun = 0
    /\ ffSeen = 0

\* UARTReader() in testing mode: no port is opened and no field is set (the
\* variables of the synchronizer keep a value nothing reads)
UartTesting ==
    /\ port = "absent"
    /\ i = 0
    /\ d = 0
    /\ state = 0
    /\ data = ZeroData
    /\ ret = Pending
    /\ emitted = <<>>
    /\ lastByte = NoByte
    /\ ffrun = 0
    /\ syncRun = 0
    /\ ffSeen = 0

NoScript == [noise |-> <<>>, run |-> 0, payload |-> <<>>]

Init ==
    /\ UartInit \/ UartTesting
    /\ sent = NoScript
    /\ tape = <<>>
    /\ FileIdle
    /\ StoreIdle

LinkByte ==
    \E byte \in Bytes :
        /\ (byte = SYNC_BYTE /\ state = 0) => i < MaxI
        /\ ReadByte(byte)
        /\ UNCHANGED <<sent, tape, emitted>>
        /\ UNCHANGED <<fileVars, storeVars>>

LinkEOF == ReadEOF /\ UNCHANGED <<sent, tape, emitted>> /\ UNCHANGED <<fileVars, storeVars>>

Next ==
    \/ LinkByte
    \/ LinkEOF
    \/ ReadClosed
    \/ close
    \/ ReadUnconfigured
    \/ CloseUnconfigured

Spec == Init /\ [][Next]_vars

----------------------------------------------------------------------------
(* The scripted link: leading noise, a preamble run, one payload, then      *)
(* end-of-stream.  The caller calls read_next until the stream is exhausted *)

FFs(n) == [k \in 1 .. n |-> SYNC_BYTE]

CountFF(seq, upto) == Cardinality({k \in 1 .. upto : seq[k] = SYNC_BYTE})

\* the noise never brings the counter to PREAMBLE and then shows a non-0xFF byte
NoFalseSync(noise) ==
    \A k \in 1 .. Len(noise) :
        noise[k] # SYNC_BYTE => CountFF(noise, k - 1) < PREAMBLE

NoiseMid == {<<>>, <<0>>, <<128>>, <<0, 128>>}

Noise ==
    {nz \in {FFs(a) \o mid \o FFs(b) : a \in 0 .. MaxNoiseFF,
                                       b \in 0 .. MaxNoiseFF, mid \in NoiseMid} :
        NoFalseSync(nz)}

SyncPayloads ==
    { <<0, 0, 0, 0, 0, 0>>,
      <<128, SYNC_BYTE, SYNC_BYTE, 0, SYNC_BYTE, SYNC_BYTE>>,
      <<1, 0, SYNC_BYTE, 127, 0, 128>> }

DecodeBytes == {0, 1, 127, 128, SYNC_BYTE}

DecodePayloads ==
    {p \in [1 .. FRAME_LEN -> DecodeBytes] : p[1] # SYNC_BYTE}

Scripts ==
    {[noise |-> nz, run |-> n, payload |-> p] :
        nz \in Noise, n \in PREAMBLE .. PREAMBLE + MaxExtraRun, p \in SyncPayloads}
    \cup
    {[noise |-> <<>>, run |-> PREAMBLE, payload |-> p] : p \in DecodePayloads}

Wire(sc) == sc.noise \o FFs(sc.run) \o sc.payload

\* the payload as the reader's buffer holds it (indexed from 0)
AsBuffer(p) == [k \in 0 .. FRAME_LEN - 1 |-> p[k + 1]]

InitFrames ==
    /\ UartInit
    /\ sent \in Scripts
    /\ tape = Wire(sent)
    /\ FileIdle
    /\ StoreIdle

TapeByte ==
    /\ tape # <<>>
    /\ ReadByte(Head(tape))
    /\ tape' = Tail(tape)
    /\ emitted' = IF ret'.kind = "sample" THEN Append(emitted, data') ELSE emitted
    /\ UNCHANGED sent
    /\ UNCHANGED <<fileVars, storeVars>>

TapeEOF ==
    /\ tape = <<>>
    /\ ReadEOF
    /\ UNCHANGED <<sent, tape, emitted>>
    /\ UNCHANGED <<fileVars, storeVars>>

NextFrames == TapeByte \/ TapeEOF \/ ReadClosed

SpecFrames == InitFrames /\ [][NextFrames]_vars

----------------------------------------------------------------------------
(* The replay source on enumerated CSV files: every accelerometer file of  *)
(* up to MaxRows lines over AccLines beside one GPS file, every GPS file   *)
(* of up to MaxRows lines over GpsLines beside one accelerometer file, and *)
(* a 3-row accelerometer file beside a 5-row GPS file, and a pair of files *)
(* with blank lines around the header and the data rows.                   *)

AccHeader == <<Str_x, Str_y, Str_z>>
GpsHeader == <<Str_longitude, Str_latitude>>

AccLines ==
    { << <<" ", "Z">>, <<"y", " ">>, <<"X">> >>,               \* " Z,y ,X"
      << <<"1">>, <<"2">>, <<"3">> >>,                          \* "1,2,3"
      << <<"-", "4">>, <<"5", ".", "9", " ">>, <<"6">>, <<"x">> >>,  \* "-4,5.9 ,6,x"
      << <<" ">>, <<>> >>,                                      \* " ,"
      << <<"a">>, <<"2">>, <<"3">> >> }                         \* "a,2,3"

GpsLines ==
    { << <<"L", "a", "t", "i", "t", "u", "d", "e", " ">>,
         <<" ", "L", "O", "N", "G", "I", "T", "U", "D", "E">> >>,   \* "Latitude , LONGITUDE"
      << <<"3", "0", ".", "5">>, <<"5", "0", ".", "4">> >>,    \* "30.5,50.4"
      << <<"1", "e", "1">>, <<" ", "-", "2">> >>,              \* "1e1, -2"
      << >>,                                                    \* ""
      << <<"7">> >> }                                           \* "7"

SeqsUpTo(S, n) == UNION {[1 .. k -> S] : k \in 0 .. n}

AccPartner == << AccHeader, << <<"1">>, <<"2">>, <<"3">> >>,
                            << <<"4">>, <<"5">>, <<"6">> >> >>

GpsPartner == << GpsHeader, << <<"3", "0", ".", "5">>, <<"5", "0", ".", "4">> >>,
                            << <<"3", "1">>, <<"5", "1">> >> >>

Acc3 == << AccHeader, << <<"1">>, <<"0">>, <<"0">> >>,
                      << <<"2">>, <<"0">>, <<"0">> >>,
                      << <<"3">>, <<"0">>, <<"0">> >> >>

Gps5 == << GpsHeader, << <<"1">>, <<"9">> >>, << <<"2">>, <<"9">> >>,
                      << <<"3">>, <<"9">> >>, << <<"4">>, <<"9">> >>,
                      << <<"5">>, <<"9">> >> >>

\* files with blank lines before the header, between and after the data rows
AccGaps == << << >>, << <<"X">>, <<"Y">>, <<"Z">> >>, << <<"1">>, <<"2">>, <<"3">> >>,
              << <<" ">>, <<>>, <<>> >>, << <<"4">>, <<"5">>, <<"6">> >>, << >>,
              << <<"7">>, <<"8">>, <<"9">> >>, << <<>> >> >>

GpsGaps == << << <<" ">> >>, GpsHeader, << >>,
              << <<"1">>, <<"2">> >>, << <<>>, <<"\t">> >>,
              << <<"3">>, <<"4">> >> >>

\* the values of config.DELAY: None, and the numbers from -1 to MaxDelay
Delays == {<<>>} \cup {<<n>> : n \in 0 - 1 .. MaxDelay}

\* the file pairs replayed under every value of config.DELAY
PacedPairs == {[acc |-> Acc3, gps |-> Gps5], [acc |-> AccGaps, gps |-> GpsGaps]}

FilePairs ==
    {[acc |-> f, gps |-> GpsPartner] : f \in SeqsUpTo(AccLines, MaxRows)}
    \cup {[acc |-> AccPartner, gps |-> f] : f \in SeqsUpTo(GpsLines, MaxRows)}
    \cup {[acc |-> Acc3, gps |-> Gps5], [acc |-> AccGaps, gps |-> GpsGaps]}

InitFile ==
    /\ UartInit
    /\ sent = NoScript
    /\ tape = <<>>
    /\ ds = DsNew
    /\ files \in FilePairs
    /\ exists \in {[acc |-> TRUE, gps |-> TRUE], [acc |-> FALSE, gps |-> TRUE],
                   [acc |-> TRUE, gps |-> FALSE]}
    /\ acc_log = <<>>
    /\ gps_log = <<>>
    /\ result = Outcome("", "none")
    /\ delay \in IF files \in PacedPairs THEN Delays ELSE {<<0>>}
    /\ trace = <<>>
    /\ StoreIdle

NextFile == startReading \/ stopReading \/ read \/ CreateFiles

SpecFile == InitFile /\ [][NextFile]_vars

\* the store service alone: no reader and no replay source in use
InitStore ==
    /\ UartInit
    /\ sent = NoScript
    /\ tape = <<>>
    /\ FileIdle
    /\ StoreIdle

NextStore == PostRequest \/ Resume \/ Connect \/ Drop \/ Unsubscribe

SpecStore == InitStore /\ [][NextStore]_vars

----------------------------------------------------------------------------
(* Claims about the UART source *)

\* C1: on a stream made of leading noise that completes no false sync, a run
\* of at least 10 bytes 0xFF and 6 bytes whose first is not 0xFF, read_next
\* emits exactly one frame, at the last byte of the stream, and the payload of
\* that frame is exactly those 6 bytes.
C1_OneFrameEqualToPayload ==
    /\ Len(emitted) <= 1
    /\ emitted # <<>> => tape = <<>>
    /\ tape = <<>> => emitted = << AsBuffer(sent.payload) >>

C1_Witness ==
    /\ emitted = << AsBuffer(sent.payload) >>
    /\ \E k \in 1 .. Len(sent.noise) : sent.noise[k] # SYNC_BYTE
    /\ CountFF(sent.noise, Len(sent.noise)) >= PREAMBLE
    /\ port = "closed"

\* C2 as stated: a sample is returned only when the 10 bytes that directly
\* precede the first payload byte are all 0xFF.
C2_TenPrecedingBytesAreFF ==
    ret.kind = "sample" => syncRun >= PREAMBLE

\* C2 as amended: a sample is returned only when its payload was collected
\* right after at least 10 bytes 0xFF had been consumed while seeking since
\* the previous frame (non-0xFF bytes may lie between them), and the byte
\* directly before the first payload byte is 0xFF.
C2_TenFFSeenBeforePayload ==
    ret.kind = "sample" => (ffSeen >= PREAMBLE /\ syncRun >= 1)

C2_Witness ==
    /\ ret.kind = "sample"
    /\ ffSeen >= PREAMBLE
    /\ syncRun >= 1
    /\ syncRun < PREAMBLE

\* C3: while seeking with the counter below 10, a non-0xFF byte changes none
\* of counter, payload index, payload buffer and state, and the counter still
\* equals the number of 0xFF bytes seen before it.
NoiseByteWhileSeeking ==
    /\ port = "open"
    /\ state = 0
    /\ i < PREAMBLE
    /\ lastByte' \in Bytes \ {SYNC_BYTE}
    /\ ret'.kind = "pending"

C3_NoiseIgnoredWhileSeeking ==
    [][NoiseByteWhileSeeking =>
         /\ i' = i /\ d' = d /\ data' = data /\ state' = state
         /\ ffSeen' = (IF ret.kind = "sample" THEN 0 ELSE ffSeen)
         /\ i' = ffSeen']_vars

C3_Witness ==
    /\ port = "open"
    /\ state = 0
    /\ ret.kind = "pending"
    /\ lastByte \in Bytes \ {SYNC_BYTE}
    /\ i = PREAMBLE - 1
    /\ ffrun = 0

\* C4: each axis of the returned sample is the little-endian 16-bit value of
\* its two payload bytes read as two's complement (minus 65536 from 32768
\* on), so it lies in -32768..32767; the payload 01 00 FF 7F 00 80 decodes to
\* (1, 32767, -32768).
C4_AxesAreSigned16 ==
    ret.kind = "sample" =>
        /\ \A k \in 0 .. 2 :
              LET u == sent.payload[2 * k + 1] + 256 * sent.payload[2 * k + 2]
                  a == ret.val[k + 1]
              IN  /\ a = (IF u >= 32768 THEN u - 65536 ELSE u)
                  /\ a >= 0 - 32768
                  /\ a <= 32767
        /\ sent.payload = <<1, 0, 255, 127, 0, 128>> =>
              ret.val = <<1, 32767, 0 - 32768>>

C4_Witness ==
    /\ ret.kind = "sample"
    /\ sent.payload = <<1, 0, 255, 127, 0, 128>>
    /\ ret.val = <<1, 32767, 0 - 32768>>

\* C5: end-of-stream in any synchronizer state closes the handle and returns
\* None, never a sample; once closed the handle stays closed and read_next
\* returns no sample any more.
C5_ExhaustionIsTerminal ==
    [][/\ (port = "open" /\ lastByte' = EOFByte) =>
             (port' = "closed" /\ ret' = RetNone)
       /\ port = "closed" =>
             (port' = "closed" /\ (ret' = ret \/ ret'.kind = "ValueError"))]_vars

C5_Witness ==
    /\ port = "closed"
    /\ ret = RetNone
    /\ lastByte = EOFByte
    /\ state = 1
    /\ d = 3

\* C17: a UARTReader built without a port holds no handle, never returns a
\* sample, and read_next() and close() on it either do nothing or fail with a
\* not-configured condition.
C17_TestingModeIsInert ==
    port = "absent" =>
        /\ ret.kind \in {"pending", "None", "NotConfigured"}
        /\ lastByte = NoByte

\* a step of read_next that consumed a byte
ByteStep == port = "open" /\ port' = "open" /\ lastByte' \in Bytes

\* C18: while collecting, every byte (0xFF included) is stored in the next
\* payload slot and leaves the preamble counter alone; the frame is returned
\* exactly when the sixth byte is stored, with the synchronizer back in seeking
\* and the counter at 0; a byte consumed while seeking returns no frame, and
\* at least 10 bytes 0xFF were consumed in seeking since the previous frame.
C18_CollectingFillsPayload ==
    [][ByteStep =>
          IF state = 1
          THEN /\ data' = [data EXCEPT ![d] = lastByte']
               /\ i' = i
               /\ IF d = FRAME_LEN - 1
                  THEN /\ ret' = Sample(decode(data'))
                       /\ state' = 0 /\ d' = 0 /\ i' = 0
                       /\ ffSeen' >= PREAMBLE
                  ELSE /\ ret' = Pending
                       /\ state' = 1 /\ d' = d + 1
          ELSE ret' = Pending]_vars

C18_Witness ==
    /\ ret.kind = "sample"
    /\ data[1] = SYNC_BYTE /\ data[5] = SYNC_BYTE
    /\ state = 0 /\ d = 0 /\ i = 0
    /\ ffSeen = PREAMBLE

\* C19: between calls of read_next the state is 0 or 1, never 2; d is 0 when
\* seeking and in 1..5 when collecting; every store into the payload buffer
\* uses an index in 0..5.
C19_SynchronizerInvariant ==
    [][port # "absent" =>
          /\ state \in {0, 1} /\ state' \in {0, 1}
          /\ state' = 0 => d' = 0
          /\ state' = 1 => d' \in 1 .. FRAME_LEN - 1
          /\ (ByteStep /\ (state = 1 \/ state' = 1)) =>
                (InRange(data, d) /\ d \in 0 .. 5)]_vars

C19_Witness ==
    /\ port = "closed"
    /\ state = 1
    /\ d = FRAME_LEN - 1
    /\ ret = Raised("ValueError")

----------------------------------------------------------------------------
(* Claims about the replay source *)

Ws == {"acc", "gps"}

LogOf(w) == IF w = "acc" THEN acc_log ELSE gps_log

\* the lines of a file that are not blank, in order
NonBlankLines(file) ==
    SelectSeq([k \in 1 .. Len(file) |-> k],
              LAMBDA k : \E c \in 1 .. Len(file[k]) : strip(file[k][c]) # <<>>)

\* the first non-blank line of the file holds every expected token
HasTokenHeader(w) ==
    /\ NonBlankLines(files[w]) # <<>>
    /\ \A tok \in HeaderTokens(w) :
          \E c \in 1 .. Len(files[w][NonBlankLines(files[w])[1]]) :
              lower(strip(files[w][NonBlankLines(files[w])[1]][c])) = tok

\* the first non-blank line holds no expected token, has the expected number
\* of cells and its first cells are numbers
HasNumericFirstLine(w) ==
    /\ NonBlankLines(files[w]) # <<>>
    /\ \A c \in 1 .. Len(files[w][NonBlankLines(files[w])[1]]) :
          lower(strip(files[w][NonBlankLines(files[w])[1]][c])) \notin HeaderTokens(w)
    /\ Len(files[w][NonBlankLines(files[w])[1]]) >= ExpectedCols(w)
    /\ \A c \in 1 .. ExpectedCols(w) :
          is_number(files[w][NonBlankLines(files[w])[1]][c])

\* the data lines of a file with a header: the non-blank lines after the header
DataLines(w) == Tail(NonBlankLines(files[w]))

\* the line of file w as a cursor delivers it
LineAsDelivered(w, k) == [idx |-> k, row |-> StripRow(files[w][k])]

\* the log of file w repeats the data lines `lines` in order, over and over
Cycles(w, lines) ==
    \A k \in 1 .. Len(LogOf(w)) :
        /\ LogOf(w)[k] = LineAsDelivered(w, lines[((k - 1) % Len(lines)) + 1])
        /\ k > Len(lines) => LogOf(w)[k] = LogOf(w)[k - Len(lines)]

\* C6: when both files start with a header and hold N >= 1 data rows (N of
\* the file), the k-th read delivers data row ((k-1) mod N) + 1 of each file:
\* read N+1 delivers the first data row again and reads k and k+N deliver the
\* same row.
C6_Periodic ==
    (HasTokenHeader("acc") /\ HasTokenHeader("gps")
     /\ DataLines("acc") # <<>> /\ DataLines("gps") # <<>>) =>
        \A w \in Ws : Cycles(w, DataLines(w))

C6_Witness ==
    /\ HasTokenHeader("acc") /\ HasTokenHeader("gps")
    /\ Len(DataLines("acc")) = 3
    /\ Len(DataLines("gps")) = 2
    /\ Len(files.acc) > 4
    /\ Len(acc_log) = 7
    /\ acc_log[7] = acc_log[1] /\ acc_log[4] = acc_log[1]
    /\ acc_log[2] # acc_log[1] /\ acc_log[3] # acc_log[1]
    /\ gps_log[7] = gps_log[1]
    /\ gps_log[2] # gps_log[1]

\* the rows of the data lines of file w are pairwise distinct
DistinctRows(w) ==
    \A j, k \in 1 .. Len(DataLines(w)) :
        j # k => StripRow(files[w][DataLines(w)[j]]) # StripRow(files[w][DataLines(w)[k]])

Combination(k) == <<acc_log[k].row, gps_log[k].row>>

\* C7: the cursors rewind independently: with headers and pairwise distinct
\* rows in each file, reads j and k deliver the same combination exactly when
\* k - j is a multiple of both periods; for 3 accelerometer rows and 5 GPS rows
\* the first 15 combinations are pairwise distinct and read 16 repeats read 1.
C7_IndependentRewind ==
    (HasTokenHeader("acc") /\ HasTokenHeader("gps")
     /\ DataLines("acc") # <<>> /\ DataLines("gps") # <<>>
     /\ DistinctRows("acc") /\ DistinctRows("gps")
     /\ Len(acc_log) = Len(gps_log)) =>
        /\ LET na == Len(DataLines("acc"))
               ng == Len(DataLines("gps"))
           IN  \A j, k \in 1 .. Len(acc_log) :
                  (Combination(j) = Combination(k)) <=>
                      ((k - j) % na = 0 /\ (k - j) % ng = 0)
        /\ (Len(DataLines("acc")) = 3 /\ Len(DataLines("gps")) = 5) =>
              /\ Cardinality({Combination(k) : k \in 1 .. Min(15, Len(acc_log))})
                   = Min(15, Len(acc_log))
              /\ Len(acc_log) >= 16 => Combination(16) = Combination(1)

C7_Witness ==
    /\ files = [acc |-> Acc3, gps |-> Gps5]
    /\ Len(acc_log) = 16
    /\ Len(gps_log) = 16
    /\ Cardinality({Combination(k) : k \in 1 .. 15}) = 15
    /\ Combination(16) = Combination(1)

\* the rows read() got from the cursors in its last call are well-formed
WellFormedRows ==
    /\ acc_log # <<>> /\ gps_log # <<>>
    /\ Len(acc_log) = Len(gps_log)
    /\ Len(acc_log[Len(acc_log)].row) >= 3
    /\ \A c \in 1 .. 3 : float(acc_log[Len(acc_log)].row[c]).kind = "num"
    /\ Len(gps_log[Len(gps_log)].row) >= 2
    /\ \A c \in 1 .. 2 : float(gps_log[Len(gps_log)].row[c]).kind = "num"

\* C8: a read() on a started source whose next rows are well-formed does not
\* fail: it returns a reading made of that accelerometer row, that GPS row and
\* a timestamp.
C8_ReadReturnsReading ==
    (result.op = "read" /\ ds.started /\ WellFormedRows) =>
        /\ result.kind = "reading"
        /\ result.value[1].accelerometer = parse_acc(acc_log[Len(acc_log)].row).val
        /\ result.value[1].gps = parse_gps(gps_log[Len(gps_log)].row).val
        /\ "timestamp" \in DOMAIN result.value[1]

\* the positions of the log of file w whose row came from a line not after the
\* line of the previous read: the cursor was rewound before them
AfterRewindReads(w) ==
    {k \in 2 .. Len(LogOf(w)) : LogOf(w)[k].idx <= LogOf(w)[k - 1].idx}

\* C9: a first non-blank line without header tokens, with enough cells and
\* numeric first cells is data: the first read after start delivers it, and it
\* is the first row delivered after every rewind.
C9_NumericFirstLineIsData ==
    \A w \in Ws :
        HasNumericFirstLine(w) =>
            LET first == LineAsDelivered(w, NonBlankLines(files[w])[1])
            IN  /\ LogOf(w) # <<>> => LogOf(w)[1] = first
                /\ \A k \in AfterRewindReads(w) : LogOf(w)[k] = first

C9_Witness ==
    /\ HasNumericFirstLine("acc")
    /\ Len(NonBlankLines(files.acc)) = 2
    /\ Len(acc_log) = 3
    /\ acc_log[3] = acc_log[1]
    /\ acc_log[2] # acc_log[1]
    /\ acc_log[1].idx = NonBlankLines(files.acc)[1]

\* the row is short of cells or holds a required cell that is no number
Malformed(w, row) ==
    \/ Len(row) < ExpectedCols(w)
    \/ \E c \in 1 .. ExpectedCols(w) :
          float(row[c]).kind # "num" /\ (w = "acc" \/ float(row[c]).kind = "error")

\* the entry e of the log of file w is a line of the file, stripped, that is
\* not blank and is not the header line hdr (0: the file has no header)
ProperRow(w, e, hdr) ==
    /\ e.idx \in 1 .. Len(files[w])
    /\ e = LineAsDelivered(w, e.idx)
    /\ e.row # <<>>
    /\ \E c \in 1 .. Len(e.row) : e.row[c] # <<>>
    /\ e.idx # hdr

HeaderLine(w) == IF HasTokenHeader(w) THEN NonBlankLines(files[w])[1] ELSE 0

\* C10: a row a cursor hands to parsing is the stripped text of a line of the
\* file that is neither blank nor the header (a first non-blank line with all
\* the expected tokens), and read() fails with ValueError only on a non-blank
\* row that is malformed.
C10_NoHeaderNoBlankRow ==
    /\ \A w \in Ws :
          LET hdr == HeaderLine(w)
          IN  \A k \in 1 .. Len(LogOf(w)) : ProperRow(w, LogOf(w)[k], hdr)
    /\ (result.op = "read" /\ result.kind = "ValueError") =>
          /\ acc_log # <<>> /\ Len(gps_log) = Len(acc_log)
          /\ \/ Malformed("acc", acc_log[Len(acc_log)].row)
             \/ Malformed("gps", gps_log[Len(gps_log)].row)

C10_Witness ==
    /\ HasTokenHeader("acc")
    /\ \E k \in 2 .. Len(files.acc) - 1 : ~NonBlank(StripRow(files.acc[k]))
    /\ NonBlankLines(files.acc)[1] > 1
    /\ Len(acc_log) > Len(DataLines("acc"))
    /\ Len(DataLines("acc")) >= 1
    /\ result.kind # "ValueError"

\* the first non-blank line of file w is skipped as a header by the detection
FirstLineSkipped(w) ==
    Classify(StripRow(files[w][NonBlankLines(files[w])[1]]),
             LowerRow(StripRow(files[w][NonBlankLines(files[w])[1]])),
             ExpectedCols(w), HeaderTokens(w)).has_header

\* the lines of file w that are replayed, in order: the non-blank lines, the
\* first left out when it is a header
ReplayedLines(w) ==
    IF NonBlankLines(files[w]) = <<>> THEN <<>>
    ELSE IF FirstLineSkipped(w) THEN Tail(NonBlankLines(files[w]))
    ELSE NonBlankLines(files[w])

\* the replayed line that follows line idx of file w, the first one after the
\* last
FollowingLine(w, idx) ==
    LET later == {k \in 1 .. Len(ReplayedLines(w)) : ReplayedLines(w)[k] > idx}
    IN  IF later = {} THEN ReplayedLines(w)[1]
        ELSE ReplayedLines(w)[Least(later)]

\* C11: a read() that failed with ValueError (a row with too few cells or a
\* cell that is no number) leaves the source started with both cursors past
\* the rows it consumed, and the next read() takes from each file the replayed
\* line that follows the one the failed call consumed.
C11_FailedReadAdvances ==
    [][(result.op = "read" /\ result.kind = "ValueError") =>
          /\ ds.started
          /\ Len(acc_log) = Len(gps_log) /\ acc_log # <<>>
          /\ \A w \in Ws : ds[w].f.open /\ ds[w].f.pos = LogOf(w)[Len(LogOf(w))].idx
          /\ Len(acc_log') = Len(acc_log) + 1 =>
                /\ ds'.started
                /\ Len(gps_log') = Len(acc_log')
                /\ \A w \in Ws :
                      LogOf(w)'[Len(acc_log')].idx
                          = FollowingLine(w, LogOf(w)[Len(acc_log)].idx)
                /\ result'.kind # "RuntimeError"]_vars

C11_Witness ==
    /\ Len(acc_log) = 2 /\ Len(gps_log) = 2
    /\ Malformed("acc", acc_log[1].row)
    /\ ~Malformed("acc", acc_log[2].row)
    /\ acc_log[2].idx > acc_log[1].idx
    /\ Len(ReplayedLines("acc")) = 2
    /\ result.op = "read" /\ result.kind = "TypeError"

\* a step of startReading(), of stopReading(), of read(): the only steps that
\* leave that operation in `result` without touching the paths
StartStep == result'.op = "startReading" /\ exists' = exists /\ files' = files
StopStep == result'.op = "stopReading" /\ exists' = exists /\ files' = files
ReadStep == result'.op = "read" /\ exists' = exists /\ files' = files

\* C12: startReading() on a source that is not started, with a path missing,
\* fails with FileNotFoundError, opens nothing and leaves the source not
\* started with every cursor field unset; with both paths present it succeeds
\* and opens both files, also after such a failure.
C12_MissingPathFailsClean ==
    [][(StartStep /\ ~ds.started) =>
          IF ~exists.acc \/ ~exists.gps
          THEN /\ result'.kind = "FileNotFoundError"
               /\ ds' = DsNew
               /\ ds = DsNew
          ELSE /\ result'.kind = "ok"
               /\ ds'.started
               /\ \A w \in Ws : ds'[w].f.open /\ ds'[w].reader = "reader"]_vars

C12_Witness ==
    /\ result = Outcome("startReading", "FileNotFoundError")
    /\ ~exists.acc /\ exists.gps
    /\ ds = DsNew

\* C13: read() on a source that is not started fails with RuntimeError and
\* changes nothing: no file is opened, no cursor moves, no buffer changes, no
\* row is taken.
C13_NotStartedReadHasNoEffect ==
    [][(ReadStep /\ ~ds.started) =>
          /\ result' = Outcome("read", "RuntimeError")
          /\ ds' = ds
          /\ ds = DsNew
          /\ acc_log' = acc_log /\ gps_log' = gps_log]_vars

C13_Witness ==
    /\ result = Outcome("read", "RuntimeError")
    /\ exists.acc /\ exists.gps
    /\ Len(files.acc) > 1
    /\ ds = DsNew

\* C14: stopReading() from any state succeeds and leaves the files closed,
\* readers, buffers and header flags unset and the source not started (so it
\* changes nothing when the source is already stopped); the first read() after
\* any startReading() takes the first replayed line of each file.
C14_StopResets ==
    [][/\ StopStep => (ds' = DsNew /\ result'.kind = "ok")
       /\ (StopStep /\ ds = DsNew) => ds' = ds
       /\ \A w \in Ws :
             (ReadStep /\ LogOf(w) = <<>> /\ LogOf(w)' # <<>>) =>
                 LogOf(w)'[1].idx = ReplayedLines(w)[1]]_vars

C14_Witness ==
    /\ result = Outcome("stopReading", "ok")
    /\ exists.acc /\ exists.gps
    /\ Len(ReplayedLines("acc")) >= 2
    /\ ds = DsNew

\* C15: every read() on a started source completes, whatever the two files
\* hold: the rewind loop of a cursor never goes on forever.
C15_ReadCompletes == ~(result.op = "read" /\ result.kind = "hang")

\* the positions of a step in the trace of the last read()
At(step) == {k \in 1 .. Len(trace) : trace[k] = step}

\* C16: in a read() the delay is applied only when config.DELAY is positive,
\* and after the reading has been assembled and stamped with the current time.
C16_DelayAfterAssembly ==
    /\ At("sleep") # {} => Sleeps
    /\ \A s \in At("sleep") :
          /\ \E k \in At("utcnow") : k < s
          /\ \E k \in At("AggregatedData") : k < s

----------------------------------------------------------------------------
(* Claims about the store service *)

\* C20: when create_processed_agent_data answers HTTP 500, none of the rows
\* of that request is committed in the database.
C20_FailedPostLeavesNothing ==
    response.status = 500 => response.created \cap db = {}

====
